---- MODULE Spec2Model ----
(***************************************************************************)
(* PySpringApplication.run(): the bootstrap sequence of pyspring-core      *)
(* (py_spring_core/core/application/py_spring_application.py) as a state   *)
(* machine.  One action per phase of run()/__init_app, one per iteration   *)
(* of each loop.  Every call into a collaborator (class scanner, type      *)
(* checker, application context, entity provider, component, controller,   *)
(* uvicorn) may return or raise.                                           *)
(***************************************************************************)
EXTENDS Naturals, Sequences, FiniteSets

\* ------------------------------------------------------------------ bounds
MaxEntities == 2   \* longest list returned by EntityProvider.get_entities()
MaxScanned == 1    \* most classes returned by ClassScanner.get_classes()
MaxWide == 2       \* the same, in runs over every kind of candidate class

\* ---------------------------------------------------------------- universe
\* Candidate classes and the framework base classes each one derives from.
Classes == {"Svc", "Web"}
\* Every kind of candidate class: one per category, one in two, one in none.
AllClasses == Classes \cup {"Ctl", "Beans", "Props", "Plain"}
Bases ==
    [Svc |-> {"Component"},
     Web |-> {"Component", "RestController"},
     Ctl |-> {"RestController"},
     Beans |-> {"BeanCollection"},
     Props |-> {"Properties"},
     Plain |-> {}]
ProviderNames == {"p1", "p2"}
TypeCheckingModes == {"Strict", "Basic", "Other"}

\* issubclass(_cls, _target_cls)
IsSubclass(cls, target) == target \in Bases[cls]

\* self.classes_with_handlers, in dict insertion order
classes_with_handlers == <<"Component", "RestController", "BeanCollection", "Properties">>

\* ------------------------------------------------------------------ helpers
SeqsUpTo(S, n) == UNION {[1..k -> S] : k \in 0..n}
Injective(s) == \A a, b \in 1..Len(s) : s[a] = s[b] => a = b
Range(s) == {s[k] : k \in 1..Len(s)}
IndexOf(s, x) == CHOOSE k \in 1..Len(s) : s[k] = x
IsPrefix(s, t) == Len(s) <= Len(t) /\ s = SubSeq(t, 1, Len(s))

RECURSIVE Dedup(_)
\* first occurrences, in order: a table keyed by class keeps one entry a class
Dedup(s) ==
    IF s = <<>> THEN <<>>
    ELSE LET r == Dedup(SubSeq(s, 1, Len(s) - 1))
             x == s[Len(s)]
         IN IF x \in Range(r) THEN r ELSE Append(r, x)

\* ------------------------------------------------------------------- state
VARIABLES
    entity_providers,     \* self.entity_providers: <<[name, entities]>>
    runs,                 \* calls of run() on this application object so far
    type_checking_mode,   \* self.app_config.type_checking_mode
    server_enabled,       \* self.app_config.server_config.enabled
    scanned_classes,      \* self.scanned_classes
    pc,                   \* the phase run() is in
    i,                    \* position of the loop of the current phase
    trace,                \* phases entered so far, in order
    regLog,               \* registration handler calls: <<[cls, target, origin]>>
    registered_providers, \* app_context.register_entity_provider calls that returned
    context_set,          \* provider.set_context calls that returned
    optional_error,       \* result of type_checking_service.type_checking()
    warnings,             \* logger.warning calls of _type_checking
    properties_loaded,    \* app_context.load_properties() has returned
    file_paths_set,       \* app_context.set_all_file_paths() has returned
    dependencies_injected, \* app_context.inject_dependencies_for_app_entities() has returned
    validated,            \* app_context.validate_entity_providers() has returned
    instances,            \* app_context.get_singleton_component_instances()
    controllers,          \* app_context.get_controller_instances()
    life,                 \* lifecycle state of each component instance
    initCalls,            \* finish_initialization_cycle calls per instance
    destroyCalls,         \* finish_destruction_cycle calls per instance
    provInitLog,          \* provider.provider_init calls, in order
    bindLog,              \* route binding steps: <<[ctl, step]>>
    served,               \* uvicorn.run calls
    fatal,                \* exception raised inside the try body of run()
    raised,               \* exception that leaves run() ("None": returns)
    router,               \* _cls.router of each controller class
    rows,                 \* CrudRepository: the committed rows of the model's table
    session,              \* CrudRepository: the Session of the call in progress:
                          \*   its uncommitted work and the methods called on it
    call                  \* CrudRepository: the call in progress and its outcome:
                          \*   cause is the first exception raised in it, error the
                          \*   exception now propagating

config == <<entity_providers, type_checking_mode, server_enabled>>
registry == <<regLog, registered_providers, context_set>>
gate == <<optional_error, warnings>>
container == <<properties_loaded, dependencies_injected, file_paths_set, validated,
               instances, controllers, life>>
hooks == <<initCalls, destroyCalls, provInitLog, bindLog, served>>
repo == <<rows, session, call>>
app == <<config, runs, scanned_classes, pc, i, trace, registry, gate, container, hooks, fatal, raised,
         router>>
vars == <<app, repo>>

\* --------------------------------------------------------------- phase order
\* variant: routes bound before the component init hooks run
PhaseOrder_ControllersBeforeInit ==
    << "configure_logging", "scan_classes_for_project",
       "register_all_entities_from_providers", "register_app_entities",
       "register_entity_providers", "type_checking", "load_properties",
       "init_ioc_container", "inject_dependencies_for_app_entities",
       "set_all_file_paths", "validate_entity_providers", "init_providers",
       "init_controllers", "life_cycle_init", "run_server" >>

\* variant: scanned classes registered before the providers' entities
PhaseOrder_LocalBeforeProviders ==
    << "configure_logging", "scan_classes_for_project",
       "register_app_entities", "register_all_entities_from_providers",
       "register_entity_providers", "type_checking", "load_properties",
       "init_ioc_container", "inject_dependencies_for_app_entities",
       "set_all_file_paths", "validate_entity_providers", "init_providers",
       "life_cycle_init", "init_controllers", "run_server" >>

\* variant: providers initialised before they are validated
PhaseOrder_InitProvidersBeforeValidate ==
    << "configure_logging", "scan_classes_for_project",
       "register_all_entities_from_providers", "register_app_entities",
       "register_entity_providers", "type_checking", "load_properties",
       "init_ioc_container", "inject_dependencies_for_app_entities",
       "set_all_file_paths", "init_providers", "validate_entity_providers",
       "life_cycle_init", "init_controllers", "run_server" >>

\* variant: properties loaded before the type-safety gate
PhaseOrder_PropertiesBeforeTypeCheck ==
    << "configure_logging", "scan_classes_for_project",
       "register_all_entities_from_providers", "register_app_entities",
       "register_entity_providers", "load_properties", "type_checking",
       "init_ioc_container", "inject_dependencies_for_app_entities",
       "set_all_file_paths", "validate_entity_providers", "init_providers",
       "life_cycle_init", "init_controllers", "run_server" >>

\* variant: the providers registered with the container before the scanned
\* classes are registered
PhaseOrder_ProvidersRegisteredBeforeLocal ==
    << "configure_logging", "scan_classes_for_project",
       "register_all_entities_from_providers", "register_entity_providers",
       "register_app_entities", "type_checking", "load_properties",
       "init_ioc_container", "inject_dependencies_for_app_entities",
       "set_all_file_paths", "validate_entity_providers", "init_providers",
       "life_cycle_init", "init_controllers", "run_server" >>

\* The calls of run() and __init_app, in program order.
PhaseOrder ==
    << "configure_logging",
       "scan_classes_for_project",
       "register_all_entities_from_providers",
       "register_app_entities",
       "register_entity_providers",
       "type_checking",
       "load_properties",
       "init_ioc_container",
       "inject_dependencies_for_app_entities",
       "set_all_file_paths",
       "validate_entity_providers",
       "init_providers",
       "life_cycle_init",
       "init_controllers",
       "run_server" >>

\* variant: teardown at the end of the try body instead of in a finally clause
OnException_NoFinally == "done"

\* where control goes when the try body raises: the finally clause
OnException == "life_cycle_destruction"

\* where control goes when the try body completes: the finally clause
OnCompletion == "life_cycle_destruction"

\* The statement after phase p when p returns normally.
NextPhase(p) ==
    LET k == IndexOf(PhaseOrder, p)
        n == IF k = Len(PhaseOrder) THEN OnCompletion ELSE PhaseOrder[k + 1]
    IN IF n = "run_server" /\ ~server_enabled THEN OnCompletion ELSE n

Goto(p) == pc' = p /\ i' = 1 /\ trace' = Append(trace, p)
Advance == Goto(NextPhase(pc))
Raise(e) == fatal' = e /\ Goto(OnException)

\* ------------------------------------------------------------------- inputs
EntityLists == SeqsUpTo(Classes, MaxEntities)
ScanResults == {s \in SeqsUpTo(Classes, MaxScanned) : Injective(s)}
ProviderLists ==
    {ps \in SeqsUpTo([name : ProviderNames, entities : EntityLists], Cardinality(ProviderNames)) :
        \A a, b \in 1..Len(ps) : ps[a].name = ps[b].name => a = b}

\* A repository on which no call has been made.
NoSession == [state |-> "none", tx |-> "none", pending |-> <<>>, log |-> <<>>]
NoCall == [op |-> "idle", at |-> "idle", arg |-> <<>>, query |-> <<>>, before |-> <<>>,
           cause |-> "None", error |-> "None", result |-> "none"]
RepoIdle == rows = <<>> /\ session = NoSession /\ call = NoCall

\* Nothing registered, constructed or called yet.
Fresh ==
    /\ runs = 1
    /\ regLog = <<>>
    /\ registered_providers = <<>>
    /\ context_set = <<>>
    /\ optional_error = "unset"
    /\ warnings = <<>>
    /\ properties_loaded = FALSE
    /\ dependencies_injected = FALSE
    /\ file_paths_set = FALSE
    /\ validated = FALSE
    /\ instances = <<>>
    /\ controllers = <<>>
    /\ life = [c \in AllClasses |-> "Absent"]
    /\ initCalls = [c \in AllClasses |-> 0]
    /\ destroyCalls = [c \in AllClasses |-> 0]
    /\ provInitLog = <<>>
    /\ bindLog = <<>>
    /\ served = 0
    /\ fatal = "None"
    /\ raised = "None"
    /\ router = [c \in AllClasses |-> "unset"]

\* State after PySpringApplication.__init__: configuration read, nothing run.
Init ==
    /\ entity_providers \in ProviderLists
    /\ type_checking_mode \in TypeCheckingModes
    /\ server_enabled \in BOOLEAN
    /\ scanned_classes = <<>>
    /\ pc = PhaseOrder[1]
    /\ i = 1
    /\ trace = <<PhaseOrder[1]>>
    /\ Fresh
    /\ RepoIdle

\* ---------------------------------------------------------------- logging
\* __configure_logging: logger.add, or nothing without a log file path
ConfigureLogging ==
    /\ pc = "configure_logging"
    /\ \/ Advance /\ UNCHANGED fatal
       \/ Raise("configure_logging")
    /\ UNCHANGED <<config, runs, repo, router, scanned_classes, registry, gate, container, hooks, raised>>

\* ------------------------------------------------------------------- scan
\* _scan_classes_for_project
ScanClassesForProject ==
    /\ pc = "scan_classes_for_project"
    /\ \/ /\ \E cs \in ScanResults : scanned_classes' = cs
          /\ Advance
          /\ UNCHANGED fatal
       \/ /\ Raise("scan_classes_for_project")
          /\ UNCHANGED scanned_classes
    /\ UNCHANGED <<config, runs, repo, router, registry, gate, container, hooks, raised>>

\* ----------------------------------------------------------- registration
\* variant: break after the first matching category
MatchingHandlers_FirstMatchOnly(cls) ==
    LET m == SelectSeq(classes_with_handlers, LAMBDA t : IsSubclass(cls, t))
    IN IF m = <<>> THEN <<>> ELSE <<m[1]>>

\* The categories _register_app_entities dispatches one class to, in order.
MatchingHandlers(cls) ==
    SelectSeq(classes_with_handlers, LAMBDA t : IsSubclass(cls, t))

RECURSIVE HandlerCalls(_)
\* _register_app_entities(classes): the handler calls it makes, in order
HandlerCalls(classes) ==
    IF classes = <<>> THEN <<>>
    ELSE LET m == MatchingHandlers(Head(classes))
         IN [k \in 1..Len(m) |-> [cls |-> Head(classes), target |-> m[k]]]
            \o HandlerCalls(Tail(classes))

\* variant: the handler registers the controller but attaches no router
FreshRouter_Missing == "unset"

\* _handle_register_rest_controller: _cls.router = APIRouter(prefix=router_prefix)
FreshRouter == "empty"

\* The routers after the handler calls `calls` have returned.
RoutersAfter(calls) ==
    [c \in AllClasses |->
        IF \E k \in 1..Len(calls) : calls[k].cls = c /\ calls[k].target = "RestController"
        THEN FreshRouter ELSE router[c]]

From(calls, origin) ==
    [k \in 1..Len(calls) |->
        [cls |-> calls[k].cls, target |-> calls[k].target, origin |-> origin]]

\* _register_all_entities_from_providers, one provider
RegisterEntitiesFromProvider ==
    /\ pc = "register_all_entities_from_providers"
    /\ i <= Len(entity_providers)
    /\ LET p == entity_providers[i]
           calls == From(HandlerCalls(p.entities), p.name)
       IN \/ /\ regLog' = regLog \o calls
             /\ router' = RoutersAfter(calls)
             /\ i' = i + 1
             /\ UNCHANGED <<pc, trace, fatal>>
          \/ \E k \in 0..Len(calls) :  \* get_entities (k = 0) or the k-th handler raises
                /\ regLog' = regLog \o SubSeq(calls, 1, k)
                /\ router' = RoutersAfter(SubSeq(calls, 1, k - 1))
                /\ Raise("register_all_entities_from_providers")
    /\ UNCHANGED <<config, runs, repo, scanned_classes, registered_providers, context_set,
                   gate, container, hooks, raised>>

RegisterEntitiesFromProvidersDone ==
    /\ pc = "register_all_entities_from_providers"
    /\ i > Len(entity_providers)
    /\ Advance
    /\ UNCHANGED <<config, runs, repo, router, scanned_classes, registry, gate, container, hooks, fatal, raised>>

\* _register_app_entities(self.scanned_classes)
RegisterAppEntities ==
    /\ pc = "register_app_entities"
    /\ LET calls == From(HandlerCalls(scanned_classes), "local")
       IN \/ /\ regLog' = regLog \o calls
             /\ router' = RoutersAfter(calls)
             /\ Advance
             /\ UNCHANGED fatal
          \/ \E k \in 1..Len(calls) :  \* the k-th handler raises
                /\ regLog' = regLog \o SubSeq(calls, 1, k)
                /\ router' = RoutersAfter(SubSeq(calls, 1, k - 1))
                /\ Raise("register_app_entities")
    /\ UNCHANGED <<config, runs, repo, scanned_classes, registered_providers, context_set,
                   gate, container, hooks, raised>>

\* _register_entity_providers, one provider
RegisterEntityProvider ==
    /\ pc = "register_entity_providers"
    /\ i <= Len(entity_providers)
    /\ LET p == entity_providers[i].name
       IN \/ /\ registered_providers' = Append(registered_providers, p)
             /\ context_set' = Append(context_set, p)
             /\ i' = i + 1
             /\ UNCHANGED <<pc, trace, fatal>>
          \/ /\ registered_providers' = Append(registered_providers, p)
             /\ UNCHANGED context_set                   \* set_context raises
             /\ Raise("register_entity_providers")
          \/ /\ UNCHANGED <<registered_providers, context_set>>   \* register_entity_provider raises
             /\ Raise("register_entity_providers")
    /\ UNCHANGED <<config, runs, repo, router, scanned_classes, regLog, gate, container, hooks, raised>>

RegisterEntityProvidersDone ==
    /\ pc = "register_entity_providers"
    /\ i > Len(entity_providers)
    /\ Advance
    /\ UNCHANGED <<config, runs, repo, router, scanned_classes, registry, gate, container, hooks, fatal, raised>>

\* ------------------------------------------------------- type-safety gate
\* variant: Strict only warns
TypeCheckingPolicy_StrictWarns(mode) ==
    CASE mode = "Strict" -> "warn"
      [] mode = "Basic" -> "warn"
      [] OTHER -> "pass"

\* variant: Basic raises as Strict does
TypeCheckingPolicy_BasicRaises(mode) ==
    CASE mode = "Strict" -> "raise"
      [] mode = "Basic" -> "raise"
      [] OTHER -> "pass"

\* variant: a mode without a case raises the returned error
TypeCheckingPolicy_OtherRaises(mode) ==
    CASE mode = "Strict" -> "raise"
      [] mode = "Basic" -> "warn"
      [] OTHER -> "raise"

\* The match statement of _type_checking on a returned error.
TypeCheckingPolicy(mode) ==
    CASE mode = "Strict" -> "raise"
      [] mode = "Basic" -> "warn"
      [] OTHER -> "pass"

\* _type_checking
TypeChecking ==
    /\ pc = "type_checking"
    /\ \/ /\ Raise("type_checking")   \* the type checking service itself raises
          /\ UNCHANGED gate
       \/ /\ optional_error' = "None"
          /\ Advance
          /\ UNCHANGED <<warnings, fatal>>
       \/ /\ optional_error' = "TypeCheckError"
          /\ LET policy == TypeCheckingPolicy(type_checking_mode)
             IN \/ /\ policy = "raise"
                   /\ Raise("TypeCheckError")
                   /\ UNCHANGED warnings
                \/ /\ policy = "warn"
                   /\ warnings' = Append(warnings, "TypeCheckError")
                   /\ Advance
                   /\ UNCHANGED fatal
                \/ /\ policy = "pass"
                   /\ Advance
                   /\ UNCHANGED <<warnings, fatal>>
    /\ UNCHANGED <<config, runs, repo, router, scanned_classes, registry, container, hooks, raised>>

\* --------------------------------------------------------------- container
\* Classes the handlers registered with the container under one category.
RegisteredUnder(target) ==
    LET hits == SelectSeq(regLog, LAMBDA r : r.target = target)
    IN Dedup([k \in 1..Len(hits) |-> hits[k].cls])

\* app_context.load_properties()
LoadProperties ==
    /\ pc = "load_properties"
    /\ \/ /\ properties_loaded' = TRUE
          /\ Advance
          /\ UNCHANGED fatal
       \/ /\ Raise("load_properties")
          /\ UNCHANGED properties_loaded
    /\ UNCHANGED <<config, runs, repo, router, scanned_classes, registry, gate, dependencies_injected,
                   file_paths_set, validated, instances, controllers, life, hooks, raised>>

\* The instances the container holds from an earlier run: a later
\* init_ioc_container either keeps them all or makes every instance anew
\* (a new instance has had no hook called on it).
Held == {c \in Range(RegisteredUnder("Component")) : life[c] # "Absent"}
HeldChoices == {Held, {}}

\* app_context.init_ioc_container(): one instance per registered class
InitIocContainer ==
    /\ pc = "init_ioc_container"
    /\ \/ \E kept \in HeldChoices :
             LET made == Range(RegisteredUnder("Component")) \ kept
             IN /\ instances' = RegisteredUnder("Component")
                /\ controllers' = RegisteredUnder("RestController")
                /\ life' = [c \in AllClasses |->
                              IF c \in made THEN "Constructed"
                              ELSE IF c \in kept THEN life[c] ELSE "Absent"]
                /\ initCalls' = [c \in AllClasses |-> IF c \in made THEN 0 ELSE initCalls[c]]
                /\ destroyCalls' = [c \in AllClasses |->
                                      IF c \in made THEN 0 ELSE destroyCalls[c]]
                /\ Advance
                /\ UNCHANGED fatal
       \/ /\ Raise("init_ioc_container")
          /\ UNCHANGED <<instances, controllers, life, initCalls, destroyCalls>>
    /\ UNCHANGED <<config, runs, repo, router, scanned_classes, registry, gate, properties_loaded,
                   dependencies_injected, file_paths_set, validated, provInitLog, bindLog,
                   served, raised>>

\* app_context.inject_dependencies_for_app_entities()
InjectDependencies ==
    /\ pc = "inject_dependencies_for_app_entities"
    /\ \/ /\ life' = [c \in AllClasses |-> IF life[c] = "Constructed" THEN "Injected" ELSE life[c]]
          /\ dependencies_injected' = TRUE
          /\ Advance
          /\ UNCHANGED fatal
       \/ /\ Raise("inject_dependencies_for_app_entities")
          /\ UNCHANGED <<life, dependencies_injected>>
    /\ UNCHANGED <<config, runs, repo, router, scanned_classes, registry, gate, properties_loaded,
                   file_paths_set, validated, instances, controllers, hooks, raised>>

\* app_context.set_all_file_paths(...)
SetAllFilePaths ==
    /\ pc = "set_all_file_paths"
    /\ \/ /\ file_paths_set' = TRUE
          /\ Advance
          /\ UNCHANGED fatal
       \/ /\ Raise("set_all_file_paths")
          /\ UNCHANGED file_paths_set
    /\ UNCHANGED <<config, runs, repo, router, scanned_classes, registry, gate, properties_loaded, dependencies_injected,
                   validated, instances, controllers, life, hooks, raised>>

\* app_context.validate_entity_providers()
ValidateEntityProviders ==
    /\ pc = "validate_entity_providers"
    /\ \/ /\ validated' = TRUE
          /\ Advance
          /\ UNCHANGED fatal
       \/ /\ Raise("validate_entity_providers")
          /\ UNCHANGED validated
    /\ UNCHANGED <<config, runs, repo, router, scanned_classes, registry, gate, properties_loaded,
                   dependencies_injected, file_paths_set, instances, controllers, life,
                   hooks, raised>>

\* ---------------------------------------------------------- provider init
\* _init_providers, one provider
InitProvider ==
    /\ pc = "init_providers"
    /\ i <= Len(entity_providers)
    /\ provInitLog' = Append(provInitLog, entity_providers[i].name)
    /\ \/ /\ i' = i + 1
          /\ UNCHANGED <<pc, trace, fatal>>
       \/ Raise("init_providers")   \* provider_init raises
    /\ UNCHANGED <<config, runs, repo, router, scanned_classes, registry, gate, container,
                   initCalls, destroyCalls, bindLog, served, raised>>

InitProvidersDone ==
    /\ pc = "init_providers"
    /\ i > Len(entity_providers)
    /\ Advance
    /\ UNCHANGED <<config, runs, repo, router, scanned_classes, registry, gate, container, hooks, fatal, raised>>

\* ------------------------------------------------------- component hooks
\* _handle_singleton_components_life_cycle(Init), one component
LifeCycleInit ==
    /\ pc = "life_cycle_init"
    /\ i <= Len(instances)
    /\ LET c == instances[i]
       IN /\ initCalls' = [initCalls EXCEPT ![c] = @ + 1]
          /\ \/ /\ life' = [life EXCEPT ![c] = "Initialized"]
                /\ i' = i + 1
                /\ UNCHANGED <<pc, trace, fatal>>
             \/ /\ Raise("life_cycle_init")   \* finish_initialization_cycle raises
                /\ UNCHANGED life
    /\ UNCHANGED <<config, runs, repo, router, scanned_classes, registry, gate, properties_loaded,
                   dependencies_injected, file_paths_set, validated, instances, controllers,
                   destroyCalls, provInitLog, bindLog, served, raised>>

LifeCycleInitDone ==
    /\ pc = "life_cycle_init"
    /\ i > Len(instances)
    /\ Advance
    /\ UNCHANGED <<config, runs, repo, router, scanned_classes, registry, gate, container, hooks, fatal, raised>>

\* ----------------------------------------------------------- route binding
\* variant: the router is included before its routes are registered
BindSteps_IncludeBeforeRoutes == <<"include_router", "register_routes", "register_middlewares">>

\* The body of the loop of __init_controllers.
BindSteps == <<"register_routes", "include_router", "register_middlewares">>

\* __init_controllers, one controller
InitController ==
    /\ pc = "init_controllers"
    /\ i <= Len(controllers)
    /\ LET steps == [k \in 1..Len(BindSteps) |-> [ctl |-> controllers[i], step |-> BindSteps[k]]]
       IN \/ /\ bindLog' = bindLog \o steps
             /\ router' = [router EXCEPT ![controllers[i]] = "populated"]
             /\ i' = i + 1
             /\ UNCHANGED <<pc, trace, fatal>>
          \/ \E k \in 1..Len(steps) :   \* the k-th step raises
                /\ bindLog' = bindLog \o SubSeq(steps, 1, k)
                /\ router' = IF k = 1 THEN router   \* register_routes did not return
                              ELSE [router EXCEPT ![controllers[i]] = "populated"]
                /\ Raise("init_controllers")
    /\ UNCHANGED <<config, runs, repo, scanned_classes, registry, gate, container,
                   initCalls, destroyCalls, provInitLog, served, raised>>

InitControllersDone ==
    /\ pc = "init_controllers"
    /\ i > Len(controllers)
    /\ Advance
    /\ UNCHANGED <<config, runs, repo, router, scanned_classes, registry, gate, container, hooks, fatal, raised>>

\* ----------------------------------------------------------------- serving
\* __run_server: uvicorn.run blocks until the server stops, cleanly or not
RunServer ==
    /\ pc = "run_server"
    /\ served' = served + 1
    /\ \/ Advance /\ UNCHANGED fatal
       \/ Raise("run_server")
    /\ UNCHANGED <<config, runs, repo, router, scanned_classes, registry, gate, container,
                   initCalls, destroyCalls, provInitLog, bindLog, raised>>

\* ---------------------------------------------------------------- teardown
\* _handle_singleton_components_life_cycle(Destruction), one component
LifeCycleDestruction ==
    /\ pc = "life_cycle_destruction"
    /\ i <= Len(instances)
    /\ LET c == instances[i]
       IN /\ destroyCalls' = [destroyCalls EXCEPT ![c] = @ + 1]
          /\ life' = [life EXCEPT ![c] = "Destroyed"]
          /\ \/ /\ i' = i + 1
                /\ UNCHANGED <<pc, trace, raised>>
             \/ /\ raised' = "life_cycle_destruction"   \* the hook raises
                /\ pc' = "done"
                /\ UNCHANGED <<i, trace>>
    /\ UNCHANGED <<config, runs, repo, router, scanned_classes, registry, gate, properties_loaded,
                   dependencies_injected, file_paths_set, validated, instances, controllers,
                   initCalls, provInitLog, bindLog, served, fatal>>

\* the finally clause ends: the pending exception, if any, is re-raised
LifeCycleDestructionDone ==
    /\ pc = "life_cycle_destruction"
    /\ i > Len(instances)
    /\ raised' = fatal
    /\ pc' = "done"
    /\ UNCHANGED <<config, runs, repo, router, scanned_classes, i, trace, registry, gate, container, hooks, fatal>>

\* ------------------------------------------------------------ a second run
MaxRuns == 2

\* run() is called again on the same object after it returned or raised:
\* nothing in run() or __init__ guards against it, the object's fields and
\* the container keep what the earlier run left in them.
RunAgain ==
    /\ pc = "done"
    /\ runs < MaxRuns
    /\ runs' = runs + 1
    /\ pc' = PhaseOrder[1]
    /\ i' = 1
    /\ trace' = <<PhaseOrder[1]>>
    /\ fatal' = "None"
    /\ raised' = "None"
    /\ optional_error' = "unset"
    /\ properties_loaded' = FALSE
    /\ dependencies_injected' = FALSE
    /\ file_paths_set' = FALSE
    /\ validated' = FALSE
    /\ UNCHANGED <<config, repo, router, scanned_classes, registry, warnings, instances,
                   controllers, life, hooks>>

\* ------------------------------------------------------------ specification
Next ==
    \/ ConfigureLogging
    \/ ScanClassesForProject
    \/ RegisterEntitiesFromProvider
    \/ RegisterEntitiesFromProvidersDone
    \/ RegisterAppEntities
    \/ RegisterEntityProvider
    \/ RegisterEntityProvidersDone
    \/ TypeChecking
    \/ LoadProperties
    \/ InitIocContainer
    \/ InjectDependencies
    \/ SetAllFilePaths
    \/ ValidateEntityProviders
    \/ InitProvider
    \/ InitProvidersDone
    \/ LifeCycleInit
    \/ LifeCycleInitDone
    \/ InitController
    \/ InitControllersDone
    \/ RunServer
    \/ LifeCycleDestruction
    \/ LifeCycleDestructionDone

Spec == Init /\ [][Next]_vars

\* run() called up to MaxRuns times on one application object
RerunProviderLists == {pl \in ProviderLists : Len(pl) <= 1}

InitRerun ==
    /\ entity_providers \in RerunProviderLists
    /\ type_checking_mode \in TypeCheckingModes
    /\ server_enabled \in BOOLEAN
    /\ scanned_classes = <<>>
    /\ pc = PhaseOrder[1]
    /\ i = 1
    /\ trace = <<PhaseOrder[1]>>
    /\ Fresh
    /\ RepoIdle

NextRerun ==
    \/ Next
    \/ RunAgain

SpecRerun == InitRerun /\ [][NextRerun]_vars

\* ------------------------------------------------- every kind of candidate
\* The run from the return of the class scan on, over classes of every
\* category, of two categories and of none, with at most one provider.
WideScanResults == {s \in SeqsUpTo(AllClasses, MaxWide) : Injective(s)}
WideProviderLists ==
    {<<>>} \cup {<<[name |-> "p1", entities |-> es]>> : es \in SeqsUpTo(AllClasses, 1)}

InitWide ==
    /\ entity_providers \in WideProviderLists
    /\ type_checking_mode \in TypeCheckingModes
    /\ server_enabled \in BOOLEAN
    /\ scanned_classes \in WideScanResults
    /\ pc = PhaseOrder[3]
    /\ i = 1
    /\ trace = SubSeq(PhaseOrder, 1, 3)
    /\ Fresh
    /\ RepoIdle

NextWide ==
    \/ RegisterEntitiesFromProvider
    \/ RegisterEntitiesFromProvidersDone
    \/ RegisterAppEntities
    \/ RegisterEntityProvider
    \/ RegisterEntityProvidersDone
    \/ TypeChecking
    \/ LoadProperties
    \/ InitIocContainer
    \/ InjectDependencies
    \/ SetAllFilePaths
    \/ ValidateEntityProviders
    \/ InitProvider
    \/ InitProvidersDone
    \/ LifeCycleInit
    \/ LifeCycleInitDone
    \/ InitController
    \/ InitControllersDone
    \/ RunServer
    \/ LifeCycleDestruction
    \/ LifeCycleDestructionDone

SpecWide == InitWide /\ [][NextWide]_vars

\* ============================================================ CrudRepository
MaxRows == 3
MaxBatch == 2

\* The model class of the repository: two columns, two values each.
Fields == {"name", "tag"}
Values == {"a", "b"}
Entities == [Fields -> Values]
\* query_by: keyword arguments of filter_by, none or some of the columns
Queries == UNION {[S -> Values] : S \in SUBSET Fields}

\* select(model_class).filter_by(**query_by): the rows it selects
Matches(row, query_by) == \A f \in DOMAIN query_by : row[f] = query_by[f]
\* _find_by: session.exec(statement).first(), as a position in rows or 0
FindBy(rs, query_by) ==
    IF \E k \in 1..Len(rs) : Matches(rs[k], query_by)
    THEN CHOOSE k \in 1..Len(rs) :
            /\ Matches(rs[k], query_by)
            /\ \A j \in 1..(k - 1) : ~Matches(rs[j], query_by)
    ELSE 0

\* variant: always insert
UpsertRows_AlwaysInsert(rs, entity, query_by) == Append(rs, entity)

\* upsert: every field of the row found is set from the entity, or the
\* entity is added
UpsertRows(rs, entity, query_by) ==
    LET existing_entity == FindBy(rs, query_by)
    IN IF existing_entity # 0
       THEN [rs EXCEPT ![existing_entity] = [f \in Fields |-> entity[f]]]
       ELSE Append(rs, entity)

RemoveFirst(rs, e) ==
    IF e \in Range(rs)
    THEN LET k == IndexOf(rs, e)
         IN SubSeq(rs, 1, k - 1) \o SubSeq(rs, k + 1, Len(rs))
    ELSE rs

RECURSIVE Flush(_, _)
\* the rows after the session's work is written
Flush(rs, work) ==
    IF work = <<>> THEN rs
    ELSE Flush(IF Head(work).kind = "add" THEN Append(rs, Head(work).row)
               ELSE RemoveFirst(rs, Head(work).row),
               Tail(work))

\* The lambda each method hands to _commit_operation_in_session.
SessionOperation(op, arg) ==
    [k \in 1..Len(arg) |-> [kind |-> IF op = "delete" THEN "delete" ELSE "add", row |-> arg[k]]]

\* Exception and its subclasses; an interrupt (KeyboardInterrupt,
\* SystemExit) is a BaseException only.
Exceptions == {"OperationError", "CommitError", "RollbackError", "CloseError"}
BaseExceptions == Exceptions \cup {"OperationInterrupt", "CommitInterrupt"}

\* variant: no except clause
Handler_NoExcept(error) == "finally"

\* try / except Exception / finally: where an exception raised in try goes
Handler(error) == IF error \in Exceptions THEN "except" ELSE "finally"

AtRest == call.at \in {"idle", "returned", "raised"}
OpenSession == [state |-> "open", tx |-> "none", pending |-> <<>>, log |-> <<>>]
Enter(op, arg) ==
    /\ session' = OpenSession   \* session or self._create_session()
    /\ call' = [op |-> op, at |-> "operation", arg |-> arg, query |-> <<>>, before |-> rows,
                cause |-> "None", error |-> "None", result |-> "none"]
    /\ UNCHANGED rows

\* save(entity)
Save ==
    /\ AtRest
    /\ Len(rows) < MaxRows
    /\ \E entity \in Entities : Enter("save", <<entity>>)
    /\ UNCHANGED app

\* save_all(entities)
SaveAll ==
    /\ AtRest
    /\ \E entities \in SeqsUpTo(Entities, MaxBatch) :
          /\ Len(rows) + Len(entities) <= MaxRows
          /\ Enter("save_all", entities)
    /\ UNCHANGED app

\* delete(entity), of an entity read from the table
Delete ==
    /\ AtRest
    /\ \E entity \in Range(rows) : Enter("delete", <<entity>>)
    /\ UNCHANGED app

\* _commit_operation_in_session: session_operation(session)
RunSessionOperation ==
    /\ call.at = "operation"
    /\ LET work == SessionOperation(call.op, call.arg)
       IN \/ /\ session' = [session EXCEPT !.pending = work, !.log = Append(@, "operation")]
             /\ call' = [call EXCEPT !.at = "commit"]
          \/ \E k \in 0..Len(work), e \in {"OperationError", "OperationInterrupt"} :
                \* raises with k items of the work done
                /\ k < Len(work) \/ Len(work) = 0
                /\ session' = [session EXCEPT !.pending = SubSeq(work, 1, k),
                                               !.log = Append(@, "operation")]
                /\ call' = [call EXCEPT !.at = Handler(e), !.cause = e, !.error = e]
    /\ UNCHANGED <<app, rows>>

\* _commit_operation_in_session: session.commit()
SessionCommit ==
    /\ call.at = "commit"
    /\ \/ /\ rows' = Flush(rows, session.pending)
          /\ session' = [session EXCEPT !.pending = <<>>, !.tx = "committed",
                                         !.log = Append(@, "commit")]
          /\ call' = [call EXCEPT !.at = "finally"]
       \/ \E e \in {"CommitError", "CommitInterrupt"} :
             /\ session' = [session EXCEPT !.log = Append(@, "commit")]
             /\ call' = [call EXCEPT !.at = Handler(e), !.cause = e, !.error = e]
             /\ UNCHANGED rows
    /\ UNCHANGED app

\* _commit_operation_in_session: logger.error(error); session.rollback(); raise error
ExceptClause ==
    /\ call.at = "except"
    /\ \/ /\ session' = [session EXCEPT !.pending = <<>>, !.tx = "rolled_back",
                                         !.log = Append(@, "rollback")]
          /\ call' = [call EXCEPT !.at = "finally"]
       \/ /\ session' = [session EXCEPT !.log = Append(@, "rollback")]   \* rollback raises
          /\ call' = [call EXCEPT !.at = "finally", !.error = "RollbackError"]
    /\ UNCHANGED <<app, rows>>

\* _commit_operation_in_session: session.close(), then return True or the
\* exception goes on to the caller
FinallyClause ==
    /\ call.at = "finally"
    /\ \/ /\ session' = [session EXCEPT !.pending = <<>>, !.state = "closed",
                                         !.log = Append(@, "close")]
          /\ call' = IF call.error = "None"
                     THEN [call EXCEPT !.at = "returned", !.result = "True"]
                     ELSE [call EXCEPT !.at = "raised", !.result = "raised"]
       \/ /\ session' = [session EXCEPT !.log = Append(@, "close")]   \* close raises
          /\ call' = [call EXCEPT !.at = "raised", !.result = "raised", !.error = "CloseError"]
    /\ UNCHANGED <<app, rows>>

\* upsert(entity, query_by): rows is the table as the session of the call
\* and every later query see it
Upsert ==
    /\ AtRest
    /\ Len(rows) < MaxRows
    /\ \E entity \in Entities, query_by \in Queries :
          LET entered == [op |-> "upsert", at |-> "returned", arg |-> <<entity>>,
                          query |-> query_by, before |-> rows, cause |-> "None",
                          error |-> "None", result |-> "entity"]
          IN \/ /\ rows' = UpsertRows(rows, entity, query_by)
                /\ session' = [OpenSession EXCEPT !.log = <<"exec", "add">>]
                /\ call' = entered
             \/ /\ UNCHANGED rows   \* the query raises
                /\ session' = [OpenSession EXCEPT !.log = <<"exec">>]
                /\ call' = [entered EXCEPT !.at = "raised", !.cause = "OperationError",
                                           !.error = "OperationError", !.result = "raised"]
    /\ UNCHANGED app

\* A repository used while the application object stays as constructed.
InitCrud ==
    /\ entity_providers = <<>>
    /\ type_checking_mode = "Basic"
    /\ server_enabled = FALSE
    /\ scanned_classes = <<>>
    /\ pc = PhaseOrder[1]
    /\ i = 1
    /\ trace = <<PhaseOrder[1]>>
    /\ Fresh
    /\ RepoIdle

NextCrud ==
    \/ Save
    \/ SaveAll
    \/ Delete
    \/ RunSessionOperation
    \/ SessionCommit
    \/ ExceptClause
    \/ FinallyClause
    \/ Upsert

SpecCrud == InitCrud /\ [][NextCrud]_vars

\* ============================================================== properties
Teardown == "life_cycle_destruction"
Entered(p) == p \in Range(trace)
DestroyPassStarts == Cardinality({k \in 1..Len(trace) : trace[k] = Teardown})
NoComponentHook(calls) == \A c \in AllClasses : calls[c] = 0

\* The phase an exception of the try body came from.
PhaseOf(e) == IF e = "TypeCheckError" THEN "type_checking" ELSE e

\* The forward phases up to and including p, then teardown.
AbortedAt(p) == Append(SubSeq(PhaseOrder, 1, IndexOf(PhaseOrder, p)), Teardown)

\* ---------------------------------------------------------------------- C1
\* C1: in every run, whichever phase raises or none, the destruction pass
\* over the singleton components is started exactly once, and only after
\* every other phase of the run has ended: it is the last phase entered, no
\* destroy hook is called outside it, and run() never ends without it.
C1_DestroyPassOnceAndLast ==
    /\ DestroyPassStarts <= 1
    /\ pc \in {Teardown, "done"} <=> DestroyPassStarts = 1
    /\ DestroyPassStarts = 1 => trace[Len(trace)] = Teardown
    /\ ~NoComponentHook(destroyCalls) => DestroyPassStarts = 1

\* a run that a component init hook aborted and that tore a component down
C1_Witness ==
    /\ pc = "done"
    /\ fatal = "life_cycle_init"
    /\ DestroyPassStarts = 1
    /\ destroyCalls["Svc"] = 1

\* ---------------------------------------------------------------------- C2
\* C2: when run() ends, the destroy hook of every singleton component the
\* container reports has been invoked exactly once, whatever lifecycle state
\* the component had reached and wherever the bootstrap aborted.
C2_EveryInstanceDestroyedOnce ==
    pc = "done" => \A k \in 1..Len(instances) : destroyCalls[instances[k]] = 1

\* ---------------------------------------------------------------------- C3
\* C3: a destroy hook that raises does not keep the teardown pass from
\* attempting the destroy hook of every remaining component.
C3_DestroyFailureDoesNotBlockOthers ==
    (pc = "done" /\ raised = Teardown) =>
        \A k \in 1..Len(instances) : destroyCalls[instances[k]] >= 1

\* ---------------------------------------------------------------------- C4
\* C4: when a phase before serving raises, no later forward phase runs, the
\* teardown pass runs, and the error the caller of run() receives after
\* teardown is that same error.
C4_FatalErrorSurfacesAfterTeardown ==
    (pc = "done" /\ fatal \notin {"None", "run_server"}) =>
        /\ trace = AbortedAt(PhaseOf(fatal))
        /\ raised = fatal

\* ---------------------------------------------------------------------- C5
\* C5: in Strict mode a type-checking error aborts the bootstrap with that
\* error before properties are loaded: no property load, container init,
\* injection, validation, provider init, component init, route binding or
\* server start happens in the run, and the teardown pass still runs.
C5_StrictAbortsBeforeProperties ==
    (type_checking_mode = "Strict" /\ optional_error = "TypeCheckError") =>
        /\ fatal = "TypeCheckError"
        /\ trace = AbortedAt("type_checking")
        /\ pc \in {Teardown, "done"}
        /\ pc = "done" => raised = "TypeCheckError"
        /\ ~properties_loaded /\ ~dependencies_injected /\ ~validated
        /\ instances = <<>> /\ controllers = <<>>
        /\ provInitLog = <<>> /\ NoComponentHook(initCalls)
        /\ bindLog = <<>> /\ served = 0

C5_Witness ==
    /\ pc = "done"
    /\ type_checking_mode = "Strict"
    /\ optional_error = "TypeCheckError"
    /\ regLog # <<>>

\* ---------------------------------------------------------------------- C6
\* C6: in Basic mode a type-checking error is logged as a warning and not
\* raised: the caller never receives it, and when no other phase fails and
\* the server is enabled the run goes through every later phase in order
\* and starts the server.
C6_BasicWarnsAndContinues ==
    (type_checking_mode = "Basic" /\ optional_error = "TypeCheckError") =>
        /\ warnings = <<"TypeCheckError">>
        /\ fatal # "TypeCheckError" /\ raised # "TypeCheckError"
        /\ Entered("load_properties")
        /\ (pc = "done" /\ server_enabled /\ fatal \in {"None", "run_server"}) =>
              /\ served = 1
              /\ trace = AbortedAt("run_server")

C6_Witness ==
    /\ pc = "done"
    /\ type_checking_mode = "Basic"
    /\ optional_error = "TypeCheckError"
    /\ fatal = "None"
    /\ served = 1
    /\ raised = "None"

\* ---------------------------------------------------------------------- C7
\* C7: no route binding step (register_routes, include_router,
\* register_middlewares) happens before dependency injection has completed
\* and the init hook has been invoked on every singleton component; when
\* injection or a component init hook fails, no route is bound in the run.
C7_NoRouteBeforeInjectionAndInit ==
    /\ bindLog # <<>> =>
          /\ dependencies_injected
          /\ \A k \in 1..Len(instances) :
                /\ initCalls[instances[k]] = 1
                /\ life[instances[k]] \in {"Initialized", "Destroyed"}
    /\ fatal \in {"inject_dependencies_for_app_entities", "life_cycle_init"} =>
          bindLog = <<>>

\* a route bound in a run with two initialised components
C7_Witness ==
    /\ bindLog # <<>>
    /\ Len(instances) = 2
    /\ pc = "init_controllers"

\* ---------------------------------------------------------------------- C8
ProviderIndex(name) == CHOOSE k \in 1..Len(entity_providers) : entity_providers[k].name = name
LocalCalls == {k \in 1..Len(regLog) : regLog[k].origin = "local"}
ProviderCalls == {k \in 1..Len(regLog) : regLog[k].origin # "local"}

\* C8: every entity a provider contributes is registered, under every
\* category it satisfies, before any scanned entity is registered, and the
\* providers' entities are registered in provider iteration order.
C8_ProviderEntitiesBeforeLocal ==
    /\ \A a \in ProviderCalls, b \in LocalCalls : a < b
    /\ \A a, b \in ProviderCalls :
          a < b => ProviderIndex(regLog[a].origin) <= ProviderIndex(regLog[b].origin)
    /\ LocalCalls # {} =>
          \A k \in 1..Len(entity_providers) :
             \A e \in Range(entity_providers[k].entities) :
                \A t \in Bases[e] :
                   \E a \in ProviderCalls :
                      /\ regLog[a].cls = e
                      /\ regLog[a].target = t
                      /\ regLog[a].origin = entity_providers[k].name

\* two providers and the scan each contributed a registered entity
C8_Witness ==
    /\ LocalCalls # {}
    /\ \E a, b \in ProviderCalls : regLog[a].origin # regLog[b].origin

\* ---------------------------------------------------------------------- C9
\* C9 as stated: provider_init runs only after provider validation has
\* succeeded; when validation fails no provider init hook and no component
\* init hook runs; when validation succeeds the provider init hooks are
\* invoked once each, in the order the providers were registered with the
\* container, all before any component init hook.
C9_ProviderInitOnceEachAfterValidation ==
    /\ provInitLog # <<>> => validated
    /\ fatal = "validate_entity_providers" =>
          provInitLog = <<>> /\ NoComponentHook(initCalls)
    /\ (pc = "done" /\ validated) => provInitLog = registered_providers
    /\ ~NoComponentHook(initCalls) => provInitLog = registered_providers

\* C9 amended: as above, except that when validation succeeds the provider
\* init hooks are invoked at most once each, in registration order, up to
\* and including the first one that raises: once each when none raises.
C9_ProviderInitInOrderAfterValidation ==
    /\ provInitLog # <<>> => validated
    /\ fatal = "validate_entity_providers" =>
          provInitLog = <<>> /\ NoComponentHook(initCalls)
    /\ IsPrefix(provInitLog, registered_providers)
    /\ Injective(provInitLog)
    /\ (pc = "done" /\ validated /\ fatal # "init_providers") =>
          provInitLog = registered_providers
    /\ ~NoComponentHook(initCalls) => provInitLog = registered_providers

\* two providers initialised in registration order, then a component
C9_Witness ==
    /\ validated
    /\ Len(provInitLog) = 2
    /\ ~NoComponentHook(initCalls)

\* --------------------------------------------------------------------- C10
RECURSIVE Occurrences(_, _)
\* how often class e occurs in a list
Occurrences(list, e) ==
    IF list = <<>> THEN 0
    ELSE (IF Head(list) = e THEN 1 ELSE 0) + Occurrences(Tail(list), e)

RECURSIVE ContributedBy(_, _)
\* how often class e occurs in the entity lists of a list of providers
ContributedBy(providers, e) ==
    IF providers = <<>> THEN 0
    ELSE Occurrences(Head(providers).entities, e) + ContributedBy(Tail(providers), e)

Candidates(e) == ContributedBy(entity_providers, e) + Occurrences(scanned_classes, e)
HandlerInvocations(e, t) ==
    Cardinality({k \in 1..Len(regLog) : regLog[k].cls = e /\ regLog[k].target = t})
RegistrationDone == Entered("register_entity_providers")

\* C10 as stated: after the registration phases the handler of every
\* (candidate entity, satisfied category) pair has been invoked exactly
\* once, however often the entity was contributed or discovered.
C10_HandlerInvokedExactlyOnce ==
    RegistrationDone =>
        \A e \in Classes : \A t \in Bases[e] :
            Candidates(e) >= 1 => HandlerInvocations(e, t) = 1

\* C10 amended: after the registration phases the handler of every
\* (candidate entity, satisfied category) pair has been invoked once per
\* occurrence of the entity in the providers' entity lists and the scanned
\* classes: exactly once only when the entity occurs once.
C10_HandlerInvokedOncePerOccurrence ==
    RegistrationDone =>
        \A e \in Classes : \A t \in Range(classes_with_handlers) :
            HandlerInvocations(e, t) = (IF IsSubclass(e, t) THEN Candidates(e) ELSE 0)

\* a class contributed by two providers and also discovered by the scan
C10_Witness ==
    /\ RegistrationDone
    /\ Len(entity_providers) = 2
    /\ Occurrences(entity_providers[1].entities, "Web") >= 1
    /\ Occurrences(entity_providers[2].entities, "Web") >= 1
    /\ Occurrences(scanned_classes, "Web") = 1
    /\ HandlerInvocations("Web", "RestController") = 3

\* --------------------------------------------------------------------- C11
KnownCategories == Range(classes_with_handlers)
CallsFor(e, origin) == {k \in 1..Len(regLog) : regLog[k].cls = e /\ regLog[k].origin = origin}
HandlersInvokedFor(e, origin) == {regLog[k].target : k \in CallsFor(e, origin)}
SatisfiesNone(classes) == \A e \in Range(classes) : Bases[e] \cap KnownCategories = {}

\* C11: for every class passed to _register_app_entities, by a provider or
\* by the scan, the handlers invoked for it are exactly those of the known
\* categories it is a subclass of: all of them when it satisfies several,
\* none, and no error, when it satisfies none.
C11_HandlersAreExactlyTheCategories ==
    /\ Entered("register_entity_providers") =>
          \A e \in Range(scanned_classes) :
             /\ HandlersInvokedFor(e, "local") = Bases[e] \cap KnownCategories
             /\ Cardinality(CallsFor(e, "local")) = Cardinality(Bases[e] \cap KnownCategories)
    /\ Entered("register_app_entities") =>
          \A k \in 1..Len(entity_providers) :
             \A e \in Range(entity_providers[k].entities) :
                HandlersInvokedFor(e, entity_providers[k].name) = Bases[e] \cap KnownCategories
    /\ SatisfiesNone(scanned_classes) =>
          /\ LocalCalls = {}
          /\ fatal # "register_app_entities"

\* a class of two categories and a class of none went through registration
C11_Witness ==
    /\ Entered("register_entity_providers")
    /\ Range(scanned_classes) = {"Web", "Plain"}
    /\ HandlersInvokedFor("Web", "local") = {"Component", "RestController"}
    /\ HandlersInvokedFor("Plain", "local") = {}

\* --------------------------------------------------------------------- C12
\* The phases the claim lists, in the order it lists them.
ClaimedOrder ==
    << "scan_classes_for_project",
       "register_all_entities_from_providers",
       "register_app_entities",
       "type_checking",
       "load_properties",
       "init_ioc_container",
       "inject_dependencies_for_app_entities",
       "validate_entity_providers",
       "init_providers",
       "life_cycle_init",
       "init_controllers",
       "run_server",
       "life_cycle_destruction" >>
ClaimedPhasesOf(t) == SelectSeq(t, LAMBDA p : p \in Range(ClaimedOrder))
ExpectedPhases ==
    SelectSeq(ClaimedOrder, LAMBDA p : p # "run_server" \/ server_enabled)
EveryEntityRegistered ==
    \A e \in Classes : \A t \in Bases[e] : HandlerInvocations(e, t) = Candidates(e)

\* C12: in a run where no phase fails the phases occur each exactly once in
\* the order: class discovery, provider entities, local entities,
\* type-safety gate, property loading, container initialisation, injection,
\* provider validation, provider initialisation, component initialisation,
\* route binding, serving when enabled, destruction; each has completed
\* before the next has any effect, and the type-safety gate runs after every
\* entity is registered and before properties are loaded.
C12_PhasesInOrder ==
    /\ (pc = "done" /\ fatal = "None") => ClaimedPhasesOf(trace) = ExpectedPhases
    /\ IsPrefix(SelectSeq(ClaimedPhasesOf(trace), LAMBDA p : p # Teardown), ExpectedPhases)
    /\ optional_error # "unset" => EveryEntityRegistered
    /\ properties_loaded => optional_error # "unset"
    /\ instances # <<>> \/ controllers # <<>> => properties_loaded
    /\ dependencies_injected => properties_loaded
    /\ validated => dependencies_injected
    /\ provInitLog # <<>> => validated
    /\ ~NoComponentHook(initCalls) => validated /\ Len(provInitLog) = Len(entity_providers)
    /\ bindLog # <<>> => \A k \in 1..Len(instances) : initCalls[instances[k]] = 1
    /\ served > 0 => Len(bindLog) = Len(BindSteps) * Len(controllers)

\* a complete run with the server enabled, entities registered and routes bound
C12_Witness ==
    /\ pc = "done"
    /\ fatal = "None"
    /\ served = 1
    /\ bindLog # <<>>
    /\ Len(provInitLog) = 2
    /\ ClaimedPhasesOf(trace) = ClaimedOrder

\* --------------------------------------------------------------------- C13
ThroughRouteBinding == SubSeq(PhaseOrder, 1, IndexOf(PhaseOrder, "init_controllers"))

\* C13: the server is started if and only if the server-enabled flag is set
\* and every phase through route binding succeeded; with the flag not set
\* the run goes from route binding straight to teardown and returns
\* normally; after a server that was started stops cleanly, teardown runs
\* before run() returns.
C13_ServerGatedByFlag ==
    /\ served <= 1
    /\ served = 1 => server_enabled /\ IsPrefix(ThroughRouteBinding, trace)
    /\ pc = "done" => (served = 1 <=> server_enabled /\ fatal \in {"None", "run_server"})
    /\ (pc = "done" /\ ~server_enabled /\ fatal = "None") =>
          /\ trace = Append(ThroughRouteBinding, Teardown)
          /\ raised = "None"
    /\ (pc = "done" /\ served = 1 /\ fatal = "None") => trace[Len(trace)] = Teardown

\* --------------------------------------------------------------------- C14
ConfiguredProviders == [k \in 1..Len(entity_providers) |-> entity_providers[k].name]
LocalRegistrationComplete ==
    \A e \in Range(scanned_classes) : \A t \in Bases[e] :
        \E k \in LocalCalls : regLog[k].cls = e /\ regLog[k].target = t

C15_OtherModeIsNoOp ==
    (type_checking_mode \notin {"Strict", "Basic"} /\ optional_error = "TypeCheckError") =>
        /\ warnings = <<>>
        /\ fatal # "TypeCheckError" /\ raised # "TypeCheckError"
        /\ Entered("load_properties")
        /\ SubSeq(trace, 1, IndexOf(trace, "load_properties")) =
              SubSeq(PhaseOrder, 1, IndexOf(PhaseOrder, "load_properties"))
        /\ (pc = "done" /\ fatal = "None") =>
              trace = Append(IF server_enabled THEN PhaseOrder ELSE ThroughRouteBinding,
                             Teardown)

C15_Witness ==
    /\ type_checking_mode = "Other"
    /\ optional_error = "TypeCheckError"
    /\ properties_loaded
    /\ pc = "done"
    /\ fatal = "None"

\* --------------------------------------------------------------------- C16
\* an init hook call on c: a first call, on an instance not yet destroyed,
\* after injection completed
InitHookInOrder(c) ==
    initCalls'[c] > initCalls[c] =>
        /\ initCalls[c] = 0
        /\ destroyCalls[c] = 0
        /\ dependencies_injected
\* a destroy hook call on c: a first call
DestroyHookOnce(c) == destroyCalls'[c] > destroyCalls[c] => destroyCalls[c] = 0
HooksInOrder == \A c \in AllClasses : InitHookInOrder(c) /\ DestroyHookOnce(c)
EveryInstanceDestroyed == pc = "done" => \A c \in Range(instances) : destroyCalls[c] = 1

\* C16: over any sequence of run() calls on one application object, every
\* component instance gets its init hook at most once and only after
\* injection completed, gets its destroy hook exactly once by the time a
\* run ends, and gets no hook at all once it has been destroyed.
C16_LifecycleNeverRevisited == [][HooksInOrder]_vars /\ []EveryInstanceDestroyed

\* the hook-order part alone, for runs after the first
C16_HooksInOrderOnly == [][HooksInOrder]_vars

\* --------------------------------------------------------------------- C17
ClaimedBindSteps == <<"register_routes", "include_router", "register_middlewares">>
RECURSIVE ClaimedBinding(_)
\* the three steps for each controller of cs in turn
ClaimedBinding(cs) ==
    IF cs = <<>> THEN <<>>
    ELSE [k \in 1..3 |-> [ctl |-> Head(cs), step |-> ClaimedBindSteps[k]]]
         \o ClaimedBinding(Tail(cs))
StepsOf(c) == SelectSeq(bindLog, LAMBDA b : b.ctl = c)

\* C17: route binding goes through the controller instances the container
\* reports, in order, and does for each: register_routes, include_router,
\* register_middlewares, each once; a step that fails is the last step of
\* the run: no later controller is bound and the run goes to teardown.
C17_BindStepsInOrderOncePerController ==
    /\ IsPrefix(bindLog, ClaimedBinding(controllers))
    /\ (Entered("init_controllers") /\ pc # "init_controllers" /\ fatal # "init_controllers") =>
          /\ bindLog = ClaimedBinding(controllers)
          /\ \A c \in Range(controllers) : StepsOf(c) = ClaimedBinding(<<c>>)
    /\ (pc = "init_controllers" /\ i <= Len(controllers)) =>
          bindLog = ClaimedBinding(SubSeq(controllers, 1, i - 1))
    /\ fatal = "init_controllers" =>
          /\ pc \in {Teardown, "done"}
          /\ trace = AbortedAt("init_controllers")
          /\ served = 0
          /\ bindLog # <<>>
          /\ \A c \in Range(controllers) :
                IndexOf(controllers, c) > IndexOf(controllers, bindLog[Len(bindLog)].ctl)
                    => StepsOf(c) = <<>>

\* the first of two controllers is bound, include_router fails for the second
C17_Witness ==
    /\ Len(controllers) = 2
    /\ fatal = "init_controllers"
    /\ pc = "done"
    /\ Len(bindLog) = 5

\* both of two controllers bound in full
C17_WitnessBothBound ==
    /\ Len(controllers) = 2
    /\ Len(bindLog) = 6
    /\ fatal = "None"
    /\ pc = "done"

\* --------------------------------------------------------------------- C18
RegistrationPhases == {"register_all_entities_from_providers", "register_app_entities"}
\* the controller registrations that returned: all but a last one that raised
ControllerRegistrations ==
    {k \in 1..Len(regLog) :
        /\ regLog[k].target = "RestController"
        /\ ~(k = Len(regLog) /\ fatal \in RegistrationPhases)}
RouterReady ==
    /\ \A k \in ControllerRegistrations : router[regLog[k].cls] # "unset"
    /\ \A c \in Range(controllers) : router[c] # "unset"
    /\ \A k \in 1..Len(bindLog) : router[bindLog[k].ctl] # "unset"
    /\ \A c \in AllClasses :
          router[c] = "populated" =>
              \E k \in 1..Len(bindLog) :
                  bindLog[k].ctl = c /\ bindLog[k].step = "register_routes"
    /\ (pc = "init_controllers") =>
          \A k \in i..Len(controllers) : router[controllers[k]] = "empty"
PopulatedRouterKept ==
    \A c \in AllClasses : router[c] = "populated" => router'[c] = "populated"

\* C18: a controller class gets a router when its registration handler
\* runs, so every controller instance has one when routes are registered or
\* bound; however many times the class was registered, the router is empty
\* when register_routes is first called on it, and a router that holds
\* routes is never replaced.
C18_RouterAttachedAtRegistration == []RouterReady /\ [][PopulatedRouterKept]_vars

\* a controller class registered by a provider and by the scan, then bound
C18_Witness ==
    /\ Cardinality({k \in ControllerRegistrations : regLog[k].cls = "Web"}) = 2
    /\ router["Web"] = "populated"
    /\ pc = "done"

\* --------------------------------------------------------------------- C19
CommitCallEnded ==
    /\ call.op \in {"save", "save_all", "delete"}
    /\ call.at \in {"returned", "raised"}
OperationRaised == call.cause \in {"OperationError", "OperationInterrupt"}
Called(method) == method \in Range(session.log)
LastCalls(n) == SubSeq(session.log, Len(session.log) - n + 1, Len(session.log))

\* C19 as stated: every call ends with the session closed; the session is
\* committed iff the operation raised nothing; when the operation or the
\* commit raises, the session is rolled back, nothing is committed, and the
\* same error reaches the caller; the call returns True or nothing.
C19_CommittedIffOperationSucceeded ==
    CommitCallEnded =>
        /\ session.state = "closed"
        /\ session.tx = "committed" <=> ~OperationRaised
        /\ call.cause # "None" =>
              /\ session.tx = "rolled_back"
              /\ rows = call.before
              /\ call.result = "raised"
              /\ call.error = call.cause
        /\ call.result \in {"True", "raised"}

\* C19 amended: every call ends with an attempt to close the session;
\* commit is attempted iff the operation raised nothing, and the session is
\* committed iff neither the operation nor the commit raised; when either
\* raises, nothing of the call is committed, and if what was raised is an
\* Exception, rollback is attempted before close and, rollback and close
\* returning, the session is rolled back and the same error reaches the
\* caller; an error that is not an Exception reaches the caller without a
\* rollback; the call returns True or nothing.
C19_CommitAttemptedIffOperationSucceeded ==
    CommitCallEnded =>
        /\ LastCalls(1) = <<"close">>
        /\ session.state = "closed" <=> call.error # "CloseError"
        /\ Called("commit") <=> ~OperationRaised
        /\ session.tx = "committed" <=> call.cause = "None"
        /\ call.cause = "None" =>
              rows = Flush(call.before, SessionOperation(call.op, call.arg))
        /\ call.cause # "None" => rows = call.before
        /\ call.cause \in Exceptions =>
              /\ LastCalls(2) = <<"rollback", "close">>
              /\ call.error \notin {"RollbackError", "CloseError"} =>
                    /\ session.tx = "rolled_back"
                    /\ call.error = call.cause
        /\ call.cause \in BaseExceptions \ Exceptions =>
              /\ ~Called("rollback")
              /\ call.error # "CloseError" => call.error = call.cause
        /\ call.result \in {"True", "raised"}
        /\ call.result = "True" <=> (call.cause = "None" /\ call.error = "None")
        /\ call.result = "True" <=> call.at = "returned"

\* save_all adds one of two entities and raises: rolled back, re-raised
C19_Witness ==
    /\ CommitCallEnded
    /\ call.op = "save_all"
    /\ Len(call.arg) = 2
    /\ call.cause = "OperationError"
    /\ session.log = <<"operation", "rollback", "close">>
    /\ call.error = "OperationError"

\* the commit raises after the operation returned
C19_WitnessCommitRaises ==
    /\ CommitCallEnded
    /\ call.cause = "CommitError"
    /\ call.error = "CommitError"
    /\ session.tx = "rolled_back"

\* --------------------------------------------------------------------- C20
UpsertReturned == call.op = "upsert" /\ call.at = "returned"
UpsertEntity == call.arg[1]
InsertOrUpdate ==
    LET found == FindBy(call.before, call.query)
    IN /\ found = 0 =>
             /\ Len(rows) = Len(call.before) + 1
             /\ rows = Append(call.before, UpsertEntity)
       /\ found # 0 =>
             /\ Len(rows) = Len(call.before)
             /\ rows[found] = UpsertEntity
             /\ \A k \in 1..Len(rows) : k # found => rows[k] = call.before[k]
SecondUpsertChangesNothing == UpsertRows(rows, UpsertEntity, call.query) = rows

C20_WitnessInsert ==
    /\ UpsertReturned
    /\ call.before # <<>>
    /\ FindBy(call.before, call.query) = 0
    /\ Matches(UpsertEntity, call.query)

====
